---------------------------- MODULE Spec2Model ----------------------------
(***************************************************************************)
(* A model of "Grammar Scoring Engine.py": the error classifier, the       *)
(* weighted scorer, the metrics computer, the feedback generator and the   *)
(* recording controller of the desktop application.                        *)
(*                                                                         *)
(* Python strings are TLA+ strings, read character by character with       *)
(* SubSeq.  Real numbers are kept as integers in a stated unit: scores and *)
(* penalties in half points (ERROR_WEIGHTS holds 1.5), words per minute in *)
(* hundredths (round(..., 2)).  Python's None is the string "None".        *)
(***************************************************************************)
EXTENDS Integers, Sequences, FiniteSets, TLC

VARIABLES
    pc,                  \* position of the function under analysis
    match,               \* classify_error: its argument
    category,            \* classify_error: its return value
    matches,             \* check_grammar: what tool.check(text) returned
    error_details,       \* check_grammar: the formatted details
    error_breakdown,     \* check_grammar: category -> count
    overall_score,       \* check_grammar: the score, in half points
    total_errors,        \* check_grammar: len(matches)
    caller,              \* compute_metrics: the handler that calls it
    transcript,          \* compute_metrics: the transcript
    duration_read,       \* process_file: what sf.info(file_path) yields
    audio_duration,      \* compute_metrics: the duration in seconds
    metrics,             \* compute_metrics: its return value
    contextual_feedback, \* contextual_language_feedback: its return value
    indices,             \* advanced_style_analysis: what textstat computed
    style_analysis,      \* advanced_style_analysis: its return value
    recording_stream,    \* the global: the stream being recorded, NoStream for None
    recorded_frames,     \* the global: the chunks buffered
    recording_start_time,\* the global: None until a recording has started
    timer_job,           \* the global: the job root.after returned, NoJob for None
    streams,             \* the input streams created so far, by handle
    after_jobs,          \* the jobs pending in the event loop (root.after)
    timer_label,         \* the text of the timer label
    transcript_text,     \* the text of the transcript widget
    score_label,         \* what the score label shows
    errors_text,         \* the text of the errors widget
    style_text,          \* what the style widget shows
    report_text,         \* what the report widget shows
    inline_errors,       \* the global: tag -> match, as a set of entries
    tag_ranges,          \* the tags of the transcript widget and their ranges
    popups,              \* the "Error Correction" windows open
    temp_file,           \* TEMP_AUDIO_FILE on disk
    last                 \* the handler that ran last, and what happened in it

pureVars == <<pc, match, category, matches, error_details, error_breakdown,
              overall_score, total_errors, caller, transcript, duration_read,
              audio_duration, metrics, contextual_feedback, indices,
              style_analysis>>

recorderVars == <<recording_stream, recorded_frames, recording_start_time,
                  timer_job, streams, after_jobs>>

panelVars == <<transcript_text, score_label, errors_text, style_text, report_text>>

windowVars == <<tag_ranges, popups>>

guiVars == <<recorderVars, timer_label, panelVars, inline_errors, windowVars,
             temp_file, last>>

vars == <<pureVars, guiVars>>

None == "None"

---------------------------------------------------------------------------
(* Bounds of the model.                                                    *)

MaxMatches == 3          \* matches in a list given to check_grammar
MaxCount == 16           \* errors of one category in a breakdown
MaxDuration == 10        \* seconds of audio
MaxClockStepBack == 2    \* seconds the wall clock is set back while recording
MaxDetails == 3          \* details in a list given to the feedback generator
MaxStreams == 2          \* input streams created in a run
MaxChunks == 2           \* chunks one stream delivers
MaxPending == 2          \* timer jobs pending at a time
MaxPopups == 1           \* "Error Correction" windows open at a time

---------------------------------------------------------------------------
(* Python string operations.                                               *)

UpperLetters == "ABCDEFGHIJKLMNOPQRSTUVWXYZ"
LowerLetters == "abcdefghijklmnopqrstuvwxyz"

CharAt(s, i) == SubSeq(s, i, i)

\* str.lower() on one character (ASCII letters).
LowerChar(c) ==
    IF \E k \in 1..Len(UpperLetters) : CharAt(UpperLetters, k) = c
    THEN CharAt(LowerLetters,
                CHOOSE k \in 1..Len(UpperLetters) : CharAt(UpperLetters, k) = c)
    ELSE c

RECURSIVE StrLowerFrom(_, _)
StrLowerFrom(s, i) ==
    IF i > Len(s) THEN ""
    ELSE LowerChar(CharAt(s, i)) \o StrLowerFrom(s, i + 1)

\* s.lower()
StrLower(s) == StrLowerFrom(s, 1)

\* sub in s
StrIn(sub, s) ==
    \E i \in 0..(Len(s) - Len(sub)) : SubSeq(s, i + 1, i + Len(sub)) = sub

---------------------------------------------------------------------------
(* Global constants of the program.                                        *)

Categories == {"GRAMMAR", "TYPOS", "PUNCTUATION", "STYLE"}

SPELLING_RULE_ID == "MORFOLOGIK_RULE_EN_US"

---------------------------------------------------------------------------
(* classify_error                                                          *)

\* A variant that tests the style keywords first.
classify_error_unordered(m) ==
    LET message == StrLower(m.message) IN
    IF StrIn("style", message) \/ StrIn("readability", message) THEN "STYLE"
    ELSE IF m.ruleId = SPELLING_RULE_ID \/ StrIn("spelling", message) THEN "TYPOS"
    ELSE IF StrIn("punctuation", message) THEN "PUNCTUATION"
    ELSE "GRAMMAR"

classify_error(m) ==
    LET rule_id == m.ruleId
        message == StrLower(m.message)
    IN  IF rule_id = SPELLING_RULE_ID \/ StrIn("spelling", message) THEN "TYPOS"
        ELSE IF StrIn("punctuation", message) THEN "PUNCTUATION"
        ELSE IF StrIn("style", message) \/ StrIn("readability", message) THEN "STYLE"
        ELSE "GRAMMAR"

---------------------------------------------------------------------------
(* check_grammar                                                           *)

\* The order in which the dictionaries of the program list the categories.
CategoryOrder == <<"GRAMMAR", "TYPOS", "PUNCTUATION", "STYLE">>

\* ERROR_WEIGHTS with the weight of TYPOS raised to that of GRAMMAR.
ERROR_WEIGHTS_typos3 ==
    [GRAMMAR |-> 6, TYPOS |-> 6, PUNCTUATION |-> 2, STYLE |-> 3]

\* In half points: 3, 2, 1 and 1.5.
ERROR_WEIGHTS ==
    [GRAMMAR |-> 6, TYPOS |-> 4, PUNCTUATION |-> 2, STYLE |-> 3]

PerfectScore == 200     \* the literal 100, in half points

Max(a, b) == IF a >= b THEN a ELSE b

EmptyBreakdown == [c \in Categories |-> 0]

\* f"Error: ...\nCategory: ...\n...-----"
FormatErrorInfo(m, cat) ==
    LET suggestion == IF Len(m.replacements) > 0 THEN m.replacements[1]
                      ELSE "No suggestion available"
        explanation == "This error occurs because: " \o m.message
                       \o ". Context: '" \o m.context \o "'."
    IN  "Error: " \o m.message \o "\n"
        \o "Category: " \o cat \o "\n"
        \o "Context: '" \o m.context \o "'\n"
        \o "Suggested Correction: " \o suggestion \o "\n"
        \o "Explanation: " \o explanation \o "\n"
        \o "-----"

\* The loop over the matches, from match i on: the breakdown and the details.
RECURSIVE ProcessMatches(_, _, _, _)
ProcessMatches(ms, i, breakdown, details) ==
    IF i > Len(ms) THEN [error_breakdown |-> breakdown, error_details |-> details]
    ELSE LET cat == classify_error(ms[i])
         IN  ProcessMatches(ms, i + 1,
                            [breakdown EXCEPT ![cat] = @ + 1],
                            Append(details, FormatErrorInfo(ms[i], cat)))

\* sum(ERROR_WEIGHTS[cat] * count for cat, count in error_breakdown.items())
RECURSIVE WeightedPenaltyFrom(_, _)
WeightedPenaltyFrom(breakdown, k) ==
    IF k > Len(CategoryOrder) THEN 0
    ELSE ERROR_WEIGHTS[CategoryOrder[k]] * breakdown[CategoryOrder[k]]
         + WeightedPenaltyFrom(breakdown, k + 1)

WeightedPenalty(breakdown) == WeightedPenaltyFrom(breakdown, 1)

\* The score without the clamp at 0.
OverallScore_unclamped(breakdown) == PerfectScore - WeightedPenalty(breakdown)

\* The score made non-negative by its absolute value instead of the clamp.
OverallScore_abs(breakdown) ==
    LET d == PerfectScore - WeightedPenalty(breakdown)
    IN  IF d >= 0 THEN d ELSE 0 - d

\* max(100 - weighted_penalty, 0)
OverallScore(breakdown) == Max(PerfectScore - WeightedPenalty(breakdown), 0)

check_grammar(ms) ==
    LET looped == ProcessMatches(ms, 1, EmptyBreakdown, <<>>)
    IN  [overall_score   |-> OverallScore(looped.error_breakdown),
         error_details   |-> looped.error_details,
         error_breakdown |-> looped.error_breakdown,
         total_errors    |-> Len(ms)]

---------------------------------------------------------------------------
(* compute_metrics                                                         *)

FILLER_WORDS == <<"um", "uh", "like", "you know", "ah", "er">>

\* The characters str.split() treats as separators (ASCII).
Whitespace == {" ", "\t", "\n", "\r", "\f"}

\* transcript.split(): the maximal runs of non-whitespace, scanning from i with
\* the word being read in cur.
RECURSIVE SplitFrom(_, _, _, _)
SplitFrom(s, i, cur, words) ==
    IF i > Len(s) THEN (IF cur = "" THEN words ELSE Append(words, cur))
    ELSE IF CharAt(s, i) \in Whitespace
         THEN SplitFrom(s, i + 1, "", IF cur = "" THEN words ELSE Append(words, cur))
         ELSE SplitFrom(s, i + 1, cur \o CharAt(s, i), words)

StrSplit(s) == SplitFrom(s, 1, "", <<>>)

\* s.count(sub): the non-overlapping occurrences, found left to right.
RECURSIVE StrCountFrom(_, _, _)
StrCountFrom(s, sub, i) ==
    IF i + Len(sub) - 1 > Len(s) THEN 0
    ELSE IF SubSeq(s, i, i + Len(sub) - 1) = sub
         THEN 1 + StrCountFrom(s, sub, i + Len(sub))
         ELSE StrCountFrom(s, sub, i + 1)

StrCount(s, sub) == StrCountFrom(s, sub, 1)

\* sum(transcript_lower.count(filler) for filler in FILLER_WORDS)
RECURSIVE FillerCountFrom(_, _)
FillerCountFrom(transcript_lower, k) ==
    IF k > Len(FILLER_WORDS) THEN 0
    ELSE StrCount(transcript_lower, FILLER_WORDS[k])
         + FillerCountFrom(transcript_lower, k + 1)

\* round(num / den, 2) in hundredths, den > 0, num >= 0: to the nearest
\* hundredth, a tie to the even one.
RoundHundredths(num, den) ==
    LET scaled == 100 * num
        q == scaled \div den
        r == scaled % den
    IN  IF 2 * r > den THEN q + 1
        ELSE IF 2 * r < den THEN q
        ELSE IF q % 2 = 0 THEN q ELSE q + 1

\* What a Python expression yields: a value, or the exception it raises.
Return(v) == [exc |-> None, val |-> v]
Raise(e) == [exc |-> e, val |-> None]

\* round(word_count / (audio_duration / 60), 2) in hundredths of a word per
\* minute: dividing by a zero duration raises.
SpeakingRate(word_count, duration) ==
    IF duration = 0 THEN Raise("ZeroDivisionError")
    ELSE IF duration > 0 THEN Return(RoundHundredths(word_count * 60, duration))
    ELSE Return(0 - RoundHundredths(word_count * 60, 0 - duration))

\* The speaking rate computed without the guard on the duration.
Wpm_unguarded(word_count, duration) == SpeakingRate(word_count, duration)

\* The speaking rate left unrounded: its hundredths cut.
Wpm_truncated(word_count, duration) ==
    IF duration > 0 THEN Return((100 * word_count * 60) \div duration)
    ELSE Return(0)

\* round(...) if audio_duration > 0 else 0
Wpm(word_count, duration) ==
    IF duration > 0 THEN SpeakingRate(word_count, duration) ELSE Return(0)

\* The filler words counted as whole words only.
FillerCount_tokens(text) ==
    LET words == StrSplit(StrLower(text))
    IN  Cardinality({i \in 1..Len(words) :
                        \E k \in 1..Len(FILLER_WORDS) : words[i] = FILLER_WORDS[k]})

FillerCount(text) == FillerCountFrom(StrLower(text), 1)

compute_metrics(text, duration, breakdown, score) ==
    LET words == StrSplit(text)
        word_count == Len(words)
        wpm == Wpm(word_count, duration)
        filler_count == FillerCount(text)
    IN  IF wpm.exc # None THEN Raise(wpm.exc)
        ELSE Return([score        |-> score,
                     word_count   |-> word_count,
                     wpm          |-> wpm.val,
                     filler_count |-> filler_count,
                     errors       |-> [GRAMMAR     |-> breakdown["GRAMMAR"],
                                       TYPOS       |-> breakdown["TYPOS"],
                                       PUNCTUATION |-> breakdown["PUNCTUATION"]]])

\* process_file: the duration sf.info reports, 0 when reading it raises.
FileDuration(info) == IF info.exc # None THEN 0 ELSE info.duration

---------------------------------------------------------------------------
(* contextual_language_feedback                                            *)

TagOrder == <<"TYPOS", "GRAMMAR", "PUNCTUATION", "STYLE">>

CategoryTag(cat) == "Category: " \o cat

Suggestion(cat) ==
    CASE cat = "TYPOS" ->
           "Review suggested corrections for typos and consider using a spell-checker."
      [] cat = "GRAMMAR" ->
           "Review grammar suggestions and study common grammatical patterns."
      [] cat = "PUNCTUATION" ->
           "Review punctuation guidelines to improve sentence clarity."
      [] cat = "STYLE" ->
           "Consider revising stylistically ambiguous sentences for better readability."

NO_FEEDBACK == "No additional contextual feedback available."

\* The four tests on one detail, from test k on.
RECURSIVE DetailSuggestions(_, _)
DetailSuggestions(detail, k) ==
    IF k > Len(TagOrder) THEN <<>>
    ELSE (IF StrIn(CategoryTag(TagOrder[k]), detail)
          THEN <<Suggestion(TagOrder[k])>> ELSE <<>>)
         \o DetailSuggestions(detail, k + 1)

\* The loop over the details, from detail i on.
RECURSIVE CollectSuggestions(_, _)
CollectSuggestions(details, i) ==
    IF i > Len(details) THEN <<>>
    ELSE DetailSuggestions(details[i], 1) \o CollectSuggestions(details, i + 1)

\* The list left as the loop built it.
Dedupe_none(seq) == seq

\* list(dict.fromkeys(seq)): each element once, at its first place.
RECURSIVE DedupeFrom(_, _, _)
DedupeFrom(seq, i, kept) ==
    IF i > Len(seq) THEN kept
    ELSE DedupeFrom(seq, i + 1,
                    IF \E j \in 1..Len(kept) : kept[j] = seq[i]
                    THEN kept ELSE Append(kept, seq[i]))

Dedupe(seq) == DedupeFrom(seq, 1, <<>>)

\* sep.join(seq)
RECURSIVE StrJoinFrom(_, _, _)
StrJoinFrom(sep, seq, i) ==
    IF i > Len(seq) THEN ""
    ELSE IF i = Len(seq) THEN seq[i]
    ELSE seq[i] \o sep \o StrJoinFrom(sep, seq, i + 1)

StrJoin(sep, seq) == StrJoinFrom(sep, seq, 1)

contextual_language_feedback(text, details) ==
    LET suggestions == Dedupe(CollectSuggestions(details, 1))
    IN  IF Len(suggestions) > 0 THEN StrJoin(" ", suggestions)
        ELSE NO_FEEDBACK

---------------------------------------------------------------------------
(* advanced_style_analysis and generate_report                             *)

\* The indices are kept in hundredths: 60 is 60 * 100.

\* The thresholds of the comment taken as inclusive.
advanced_style_analysis_inclusive(idx) ==
    LET fre == idx.fre
        fk_grade == idx.fk_grade
        gunning == idx.gunning
        comment ==
            IF fre >= 60 * 100 THEN "The text is clear and easily understandable."
            ELSE IF fre >= 40 * 100
            THEN "The text is moderately complex; consider simplifying sentences for clarity."
            ELSE "The text is hard to read; consider revising for improved clarity and tone."
        grade == IF fk_grade > 10 * 100
                 THEN <<"Simplify sentence structure to lower the reading grade level.">>
                 ELSE <<>>
        fog == IF gunning > 12 * 100
               THEN <<"Reduce vocabulary complexity to lower the Gunning Fog Index.">>
               ELSE <<>>
        suggestions == IF Len(grade \o fog) = 0
                       THEN <<"Your writing style is effective.">>
                       ELSE grade \o fog
    IN  [flesch_reading_ease |-> fre,
         flesch_kincaid_grade |-> fk_grade,
         gunning_fog |-> gunning,
         style_comment |-> comment,
         advanced_recommendations |-> StrJoin(" ", suggestions)]

\* The comment and the recommendations, from the three indices textstat
\* computes for the text.
advanced_style_analysis(idx) ==
    LET fre == idx.fre
        fk_grade == idx.fk_grade
        gunning == idx.gunning
        comment ==
            IF fre > 60 * 100 THEN "The text is clear and easily understandable."
            ELSE IF fre > 40 * 100
            THEN "The text is moderately complex; consider simplifying sentences for clarity."
            ELSE "The text is hard to read; consider revising for improved clarity and tone."
        grade == IF fk_grade > 10 * 100
                 THEN <<"Simplify sentence structure to lower the reading grade level.">>
                 ELSE <<>>
        fog == IF gunning > 12 * 100
               THEN <<"Reduce vocabulary complexity to lower the Gunning Fog Index.">>
               ELSE <<>>
        suggestions == IF Len(grade \o fog) = 0
                       THEN <<"Your writing style is effective.">>
                       ELSE grade \o fog
    IN  [flesch_reading_ease |-> fre,
         flesch_kincaid_grade |-> fk_grade,
         gunning_fog |-> gunning,
         style_comment |-> comment,
         advanced_recommendations |-> StrJoin(" ", suggestions)]

\* The report: the values its text is formatted from, in the order of the text.
generate_report(m, advanced_style, feedback) ==
    <<"Grammar Analysis Report",
      m.score, m.word_count, m.wpm, m.filler_count,
      m.errors["GRAMMAR"], m.errors["TYPOS"], m.errors["PUNCTUATION"],
      advanced_style.flesch_reading_ease, advanced_style.flesch_kincaid_grade,
      advanced_style.gunning_fog, advanced_style.style_comment,
      advanced_style.advanced_recommendations,
      feedback>>

---------------------------------------------------------------------------
(* The collaborators: LanguageTool, Whisper, textstat.                     *)

\* The rules of the grammar checker that the texts of the model trip.
GrammarRules ==
    << [find |-> "teh", ruleId |-> "MORFOLOGIK_RULE_EN_US",
        message |-> "Possible spelling mistake found.",
        replacements |-> <<"the", "tech">>],
       [find |-> "they is", ruleId |-> "PERS_PRONOUN_AGREEMENT",
        message |-> "Did you mean 'they are'?",
        replacements |-> <<"they are">>] >>

RuleAt(text, i) ==
    {k \in 1..Len(GrammarRules) :
        /\ i + Len(GrammarRules[k].find) - 1 <= Len(text)
        /\ SubSeq(text, i, i + Len(GrammarRules[k].find) - 1) = GrammarRules[k].find}

\* tool.check(text): the matches in the order of their offsets.
RECURSIVE ToolCheckFrom(_, _)
ToolCheckFrom(text, i) ==
    IF i > Len(text) THEN <<>>
    ELSE IF RuleAt(text, i) = {} THEN ToolCheckFrom(text, i + 1)
    ELSE LET k == CHOOSE r \in RuleAt(text, i) : \A o \in RuleAt(text, i) : r <= o
             rule == GrammarRules[k]
         IN  <<[ruleId |-> rule.ruleId, message |-> rule.message,
                replacements |-> rule.replacements, context |-> text,
                offset |-> i - 1, errorLength |-> Len(rule.find)]>>
             \o ToolCheckFrom(text, i + Len(rule.find))

ToolCheck(text) == ToolCheckFrom(text, 1)

\* What model.transcribe yields: a text, or an exception.
SpokenTexts == {"they is here", "um teh cat is teh"}

TranscribeOutcomes ==
    {Return(t) : t \in SpokenTexts} \cup {Raise("RuntimeError")}

\* The indices textstat computes for a text, in hundredths: here from its
\* number of words.
TextStat(text) ==
    LET n == Len(StrSplit(text))
    IN  [fre |-> (100 - 15 * n) * 100, fk_grade |-> 3 * n * 100,
         gunning |-> 4 * n * 100]

\* transcribe_audio: the text, "" and an error dialog when transcribing raises.
transcribe_audio(outcome) ==
    IF outcome.exc # None
    THEN [text |-> "", dialogs |-> <<"Transcription Error">>,
          failures |-> <<"transcription">>]
    ELSE [text |-> outcome.val, dialogs |-> <<>>, failures |-> <<>>]

\* What sf.info yields for the file selected, and what the clock gives for
\* the length of a recording.
FileInfos ==
    {[exc |-> "RuntimeError", duration |-> 0 - 1], [exc |-> None, duration |-> MaxDuration]}

RecordingDeltas == {0, MaxDuration}

---------------------------------------------------------------------------
(* The analysis process_file and stop_recording run on a transcript, and   *)
(* what they put in the widgets.                                           *)

Analysis(text, duration) ==
    LET g == check_grammar(ToolCheck(text))
        advanced_style == advanced_style_analysis(TextStat(text))
        feedback == contextual_language_feedback(text, g.error_details)
        m == compute_metrics(text, duration, g.error_breakdown, g.overall_score)
    IN  IF m.exc # None
        THEN [exc |-> m.exc,
              transcript_text |-> "", score_label |-> <<>>, errors_text |-> "",
              style_text |-> <<>>, report_text |-> <<>>]
        ELSE [exc |-> None,
              transcript_text |-> text,
              score_label |-> <<"Grammar Score", g.overall_score, g.total_errors>>,
              errors_text |-> IF Len(g.error_details) > 0
                              THEN StrJoin("\n\n", g.error_details)
                              ELSE "No grammatical errors found.",
              style_text |-> <<advanced_style.flesch_reading_ease,
                               advanced_style.flesch_kincaid_grade,
                               advanced_style.gunning_fog,
                               advanced_style.style_comment,
                               advanced_style.advanced_recommendations>>,
              report_text |-> generate_report(m.val, advanced_style, feedback)]

\* The analysis of every transcript and duration of the model, computed once.
Analyses ==
    [text \in SpokenTexts \cup {""}, duration \in RecordingDeltas \cup {0, MaxDuration} |->
        Analysis(text, duration)]

ShowAnalysis(a) ==
    /\ transcript_text' = a.transcript_text
    /\ score_label' = a.score_label
    /\ errors_text' = a.errors_text
    /\ style_text' = a.style_text
    /\ report_text' = a.report_text

\* clear_inline_errors()
ClearInlineErrors ==
    /\ tag_ranges' = {r \in tag_ranges : \A e \in inline_errors : e.tag # r.tag}
    /\ inline_errors' = {}

---------------------------------------------------------------------------
(* Inputs of the functions.                                                *)

RuleIds == {"MORFOLOGIK_RULE_EN_US", "morfologik_rule_en_us", "UPPERCASE_SENTENCE_START"}

Messages ==
    { "Possible spelling mistake found.",
      "Possible SPELLING mistake found.",
      "Spell it out",
      "Punctuation: add a comma",
      "Check the Punctuation; this Style is informal",
      "Punctuation or spelling problem",
      "This style is wordy",
      "STYLE: readability is low",
      "Readability: the sentence is long",
      "Spelling affects readability",
      "Did you mean 'are'?",
      "" }

Replacements == { <<>>, <<"are">>, <<"is", "are">> }

\* The matches classify_error is called on.
MatchInputs ==
    [ruleId : RuleIds, message : Messages, replacements : Replacements,
     context : {"they is here"}]

Match(rule, msg, ctx, repl) ==
    [ruleId |-> rule, message |-> msg, context |-> ctx, replacements |-> repl]

\* The matches the lists given to check_grammar are made of.
ListedMatches ==
    { Match("UPPERCASE_SENTENCE_START", "Did you mean 'are'?", "they is here", <<"are">>),
      Match("MORFOLOGIK_RULE_EN_US", "Possible spelling mistake found.", "teh cat",
            <<"the", "ten">>),
      Match("COMMA_RULE", "Check the Punctuation; this Style is informal", "so um yes",
            <<>>),
      Match("WORDINESS", "This style is wordy", "in order to", <<"to">>),
      Match("AGREEMENT", "The verb does not agree", "Category: STYLE", <<>>) }

RECURSIVE SeqsUpTo(_, _)
SeqsUpTo(S, n) ==
    IF n = 0 THEN {<<>>}
    ELSE LET shorter == SeqsUpTo(S, n - 1)
         IN  shorter \cup {Append(q, x) : q \in shorter, x \in S}

MatchLists == SeqsUpTo(ListedMatches, MaxMatches)

BreakdownInputs == [Categories -> 0..MaxCount]

TranscriptInputs ==
    { "um so like I went",
      "",
      "   ",
      "Um, UH... like, you know",
      "duh, her umbrella",
      "umum likelike",
      "you  know you\tknow",
      " I went\tto\nthe  shop ",
      "Hello world",
      "AH ER ah",
      "they is here" }

\* What sf.info reports for a file: a duration, or that it cannot be read.
DurationReads ==
    {[exc |-> "RuntimeError", duration |-> 0 - 1]}
    \cup {[exc |-> None, duration |-> d] : d \in 0..MaxDuration}

\* What time.time() - recording_start_time can be: the wall clock may be set
\* back while recording.
ClockDeltas == (0 - MaxClockStepBack)..MaxDuration

\* The breakdowns compute_metrics is called with.
MetricsBreakdowns ==
    { EmptyBreakdown,
      [GRAMMAR |-> 2, TYPOS |-> 1, PUNCTUATION |-> 0, STYLE |-> 3] }

\* The detail strings contextual_language_feedback is called on: details as
\* check_grammar formats them, and other strings.
DetailInputs ==
    { FormatErrorInfo(m, classify_error(m)) : m \in ListedMatches }
    \cup { "Category: STYLE, then Category: TYPOS",
           "category: typos",
           "Category:GRAMMAR Category: GRAMMA",
           "" }

DetailLists == SeqsUpTo(DetailInputs, MaxDetails)

\* The indices advanced_style_analysis is called on, in hundredths: values
\* at, just under and just over each threshold, and far from it.
StyleIndices ==
    [fre : {0 - 5 * 100, 40 * 100 - 1, 40 * 100, 40 * 100 + 1, 50 * 100,
            60 * 100 - 1, 60 * 100, 60 * 100 + 1, 120 * 100},
     fk_grade : {0 - 3 * 100, 10 * 100 - 1, 10 * 100, 10 * 100 + 1, 18 * 100},
     gunning : {0, 12 * 100 - 1, 12 * 100, 12 * 100 + 1, 20 * 100}]

---------------------------------------------------------------------------
(* The functions, each called on its inputs.                               *)

classifyVars == <<match, category>>
grammarVars == <<matches, error_details, error_breakdown, overall_score, total_errors>>
metricsVars == <<caller, transcript, duration_read, audio_duration, metrics>>
feedbackVars == <<contextual_feedback>>
styleVars == <<indices, style_analysis>>

NoStream == 0            \* recording_stream = None
NoJob == 0               \* timer_job = None

\* The state of the window and of the globals when the main loop starts.
GuiInit ==
    /\ recording_stream = NoStream
    /\ recorded_frames = <<>>
    /\ recording_start_time = None
    /\ timer_job = NoJob
    /\ streams = <<>>
    /\ after_jobs = {}
    /\ timer_label = "Recording Time: 0 sec"
    /\ transcript_text = ""
    /\ score_label = <<"Grammar Score: N/A">>
    /\ errors_text = ""
    /\ style_text = <<>>
    /\ report_text = <<>>
    /\ inline_errors = {}
    /\ tag_ranges = {}
    /\ popups = <<>>
    /\ temp_file = [exists |-> FALSE, data |-> <<>>]
    /\ last = [op |-> "mainloop", dialogs |-> <<>>, closed |-> FALSE,
               wrote |-> FALSE, transcribed |-> FALSE, remove_failed |-> FALSE,
               escaped |-> FALSE, failures |-> <<>>, comp_window |-> <<>>]

ClassifyIdle == match = None /\ category = None
GrammarIdle ==
    /\ matches = None
    /\ error_details = None
    /\ error_breakdown = None
    /\ overall_score = None
    /\ total_errors = None
MetricsIdle ==
    /\ caller = None
    /\ transcript = None
    /\ duration_read = None
    /\ audio_duration = None
    /\ metrics = None
FeedbackIdle == contextual_feedback = None
StyleIdle == indices = None /\ style_analysis = None

\* classify_error(match)
InitClassify ==
    /\ GuiInit
    /\ pc = "classify_error"
    /\ match \in MatchInputs
    /\ category = None
    /\ GrammarIdle /\ MetricsIdle /\ FeedbackIdle /\ StyleIdle

ClassifyError ==
    /\ pc = "classify_error"
    /\ category' = classify_error(match)
    /\ pc' = "classify_error:returned"
    /\ UNCHANGED <<match, grammarVars, metricsVars, feedbackVars, styleVars, guiVars>>

NextClassify == ClassifyError

SpecClassify == InitClassify /\ [][NextClassify]_vars

\* check_grammar(text), tool.check(text) having returned matches
InitGrammar ==
    /\ GuiInit
    /\ pc = "check_grammar"
    /\ matches \in MatchLists
    /\ error_details = None
    /\ error_breakdown = None
    /\ overall_score = None
    /\ total_errors = None
    /\ ClassifyIdle /\ MetricsIdle /\ FeedbackIdle /\ StyleIdle

CheckGrammar ==
    /\ pc = "check_grammar"
    /\ LET r == check_grammar(matches)
       IN  /\ overall_score' = r.overall_score
           /\ error_details' = r.error_details
           /\ error_breakdown' = r.error_breakdown
           /\ total_errors' = r.total_errors
    /\ pc' = "check_grammar:returned"
    /\ UNCHANGED <<matches, classifyVars, metricsVars, feedbackVars, styleVars, guiVars>>

NextGrammar == CheckGrammar

SpecGrammar == InitGrammar /\ [][NextGrammar]_vars

\* The last two statements of check_grammar, on a breakdown.
InitScore ==
    /\ GuiInit
    /\ pc = "score"
    /\ error_breakdown \in BreakdownInputs
    /\ overall_score = None
    /\ matches = None /\ error_details = None /\ total_errors = None
    /\ ClassifyIdle /\ MetricsIdle /\ FeedbackIdle /\ StyleIdle

ScoreBreakdown ==
    /\ pc = "score"
    /\ overall_score' = OverallScore(error_breakdown)
    /\ pc' = "score:returned"
    /\ UNCHANGED <<matches, error_details, error_breakdown, total_errors,
                   classifyVars, metricsVars, feedbackVars, styleVars, guiVars>>

NextScore == ScoreBreakdown

SpecScore == InitScore /\ [][NextScore]_vars

\* compute_metrics, called by process_file (the duration read from the file)
\* and by stop_recording (the duration taken from the clock).
InitMetrics ==
    /\ GuiInit
    /\ transcript \in TranscriptInputs
    /\ error_breakdown \in MetricsBreakdowns
    /\ overall_score = OverallScore(error_breakdown)
    /\ \/ caller = "process_file" /\ duration_read \in DurationReads
       \/ caller = "stop_recording" /\ duration_read = None
    /\ pc = "duration"
    /\ audio_duration = None
    /\ metrics = None
    /\ matches = None /\ error_details = None /\ total_errors = None
    /\ ClassifyIdle /\ FeedbackIdle /\ StyleIdle

ReadFileDuration ==
    /\ pc = "duration"
    /\ caller = "process_file"
    /\ audio_duration' = FileDuration(duration_read)
    /\ pc' = "compute_metrics"
    /\ UNCHANGED <<caller, transcript, duration_read, metrics, classifyVars,
                   grammarVars, feedbackVars, styleVars, guiVars>>

ReadClockDuration ==
    /\ pc = "duration"
    /\ caller = "stop_recording"
    /\ audio_duration' \in ClockDeltas
    /\ pc' = "compute_metrics"
    /\ UNCHANGED <<caller, transcript, duration_read, metrics, classifyVars,
                   grammarVars, feedbackVars, styleVars, guiVars>>

ComputeMetrics ==
    /\ pc = "compute_metrics"
    /\ metrics' = compute_metrics(transcript, audio_duration, error_breakdown,
                                  overall_score)
    /\ pc' = "compute_metrics:returned"
    /\ UNCHANGED <<caller, transcript, duration_read, audio_duration, classifyVars,
                   grammarVars, feedbackVars, styleVars, guiVars>>

NextMetrics == ReadFileDuration \/ ReadClockDuration \/ ComputeMetrics

SpecMetrics == InitMetrics /\ [][NextMetrics]_vars

\* contextual_language_feedback(text, error_details)
InitFeedback ==
    /\ GuiInit
    /\ pc = "contextual_language_feedback"
    /\ error_details \in DetailLists
    /\ contextual_feedback = None
    /\ matches = None /\ error_breakdown = None /\ overall_score = None
    /\ total_errors = None
    /\ ClassifyIdle /\ MetricsIdle /\ StyleIdle

ContextualFeedback ==
    /\ pc = "contextual_language_feedback"
    /\ contextual_feedback' = contextual_language_feedback(None, error_details)
    /\ pc' = "contextual_language_feedback:returned"
    /\ UNCHANGED <<classifyVars, grammarVars, metricsVars, styleVars, guiVars>>

NextFeedback == ContextualFeedback

SpecFeedback == InitFeedback /\ [][NextFeedback]_vars

\* advanced_style_analysis(text), textstat having computed the indices
InitStyle ==
    /\ GuiInit
    /\ pc = "advanced_style_analysis"
    /\ indices \in StyleIndices
    /\ style_analysis = None
    /\ ClassifyIdle /\ GrammarIdle /\ MetricsIdle /\ FeedbackIdle

AdvancedStyleAnalysis ==
    /\ pc = "advanced_style_analysis"
    /\ style_analysis' = advanced_style_analysis(indices)
    /\ pc' = "advanced_style_analysis:returned"
    /\ UNCHANGED <<indices, classifyVars, grammarVars, metricsVars, feedbackVars,
                   guiVars>>

NextStyle == AdvancedStyleAnalysis

SpecStyle == InitStyle /\ [][NextStyle]_vars

---------------------------------------------------------------------------
(* The application: the handlers of the buttons, the audio callback and    *)
(* the timer, run by the main loop one at a time.                          *)

Handler(op) ==
    [op |-> op, dialogs |-> <<>>, closed |-> FALSE, wrote |-> FALSE,
     transcribed |-> FALSE, remove_failed |-> FALSE, escaped |-> FALSE,
     failures |-> <<>>, comp_window |-> <<>>]

\* The call that raised in the analysis of a handler: the one the outcome
\* names, compute_metrics otherwise.
Raised(outcome) ==
    IF outcome \in {"check_grammar", "advanced_style_analysis"}
    THEN <<outcome>>
    ELSE <<"compute_metrics">>

TimerText(elapsed) == "Recording Time: " \o ToString(elapsed) \o " sec"

\* The name root.after gives a new job. Tk never reuses a name; the model
\* reuses the names of jobs no longer pending, timer_job being overwritten
\* by every call of root.after.
NewJob(pending) ==
    CHOOSE j \in 1..(MaxPending + 1) :
        /\ j \notin pending
        /\ \A k \in 1..(j - 1) : k \in pending

Init ==
    /\ pc = "mainloop"
    /\ ClassifyIdle /\ GrammarIdle /\ MetricsIdle /\ FeedbackIdle /\ StyleIdle
    /\ GuiInit

\* process_file(): outcome is "cancel" when the file dialog returns no path,
\* the call of the analysis that raises, or "none".
ProcessOutcomes == {"cancel", "none", "check_grammar", "advanced_style_analysis"}

ProcessFile(outcome, tr, info) ==
    LET t == transcribe_audio(tr)
        a == Analyses[t.text, FileDuration(info)]
    IN  /\ IF outcome = "cancel"
           THEN /\ last' = Handler("process_file")
                /\ UNCHANGED <<panelVars, inline_errors, tag_ranges>>
           ELSE IF outcome # "none" \/ a.exc # None
           THEN /\ last' = [Handler("process_file") EXCEPT
                               !.transcribed = TRUE, !.dialogs = t.dialogs,
                               !.failures = t.failures \o Raised(outcome),
                               !.escaped = TRUE]
                /\ UNCHANGED <<panelVars, inline_errors, tag_ranges>>
           ELSE /\ last' = [Handler("process_file") EXCEPT
                               !.transcribed = TRUE, !.dialogs = t.dialogs,
                               !.failures = t.failures]
                /\ ShowAnalysis(a)
                /\ ClearInlineErrors
        /\ UNCHANGED <<pureVars, popups, recorderVars, timer_label, temp_file>>

\* recorded_frames left as it is when a recording starts.
FreshFrames_kept(frames) == frames

\* recorded_frames = [] in start_recording
FreshFrames(frames) == <<>>

\* The buffer taken to hold audio whatever it holds.
HasFrames_always(frames) == TRUE

\* if recorded_frames: in stop_recording
HasFrames(frames) == Len(frames) > 0

\* audio_callback(indata, ...) of stream id: one more chunk of that stream.
AudioCallback(id) ==
    /\ streams[id].state = "active"
    /\ streams[id].delivered < MaxChunks
    /\ streams' = [streams EXCEPT ![id].delivered = @ + 1]
    /\ recorded_frames' = Append(recorded_frames, <<id, streams[id].delivered + 1>>)
    /\ last' = Handler("audio_callback")
    /\ UNCHANGED <<pureVars, popups, recording_stream, recording_start_time, timer_job,
                   after_jobs, timer_label, panelVars, inline_errors, tag_ranges, temp_file>>

\* update_timer(), run by the event loop when job comes due.
UpdateTimer(job, elapsed) ==
    /\ job \in after_jobs
    /\ IF recording_start_time # None
       THEN LET pending == after_jobs \ {job}
                new == NewJob(pending)
            IN  /\ timer_label' = TimerText(elapsed)
                /\ timer_job' = new
                /\ after_jobs' = pending \cup {new}
       ELSE /\ after_jobs' = after_jobs \ {job}
            /\ UNCHANGED <<timer_label, timer_job>>
    /\ last' = Handler("update_timer")
    /\ UNCHANGED <<pureVars, popups, recording_stream, recorded_frames, recording_start_time,
                   streams, panelVars, inline_errors, tag_ranges, temp_file>>

\* start_recording(): how is whether sd.InputStream(...) or .start() raises.
StartRecording(how) ==
    /\ Cardinality(after_jobs) < MaxPending
    /\ how # "InputStream raises" => Len(streams) < MaxStreams
    /\ recorded_frames' = FreshFrames(recorded_frames)
    /\ recording_start_time' = "time.time()"
    \* update_timer(): recording_start_time is set
    /\ LET new == NewJob(after_jobs)
       IN  /\ timer_label' = TimerText(0)
           /\ timer_job' = new
           /\ after_jobs' = after_jobs \cup {new}
    /\ CASE how = "InputStream raises" ->
              /\ UNCHANGED <<recording_stream, streams>>
              /\ last' = [Handler("start_recording") EXCEPT
                             !.dialogs = <<"Recording Error">>,
                             !.failures = <<"stream">>]
         [] how = "start raises" ->
              /\ streams' = Append(streams, [state |-> "open", delivered |-> 0])
              /\ recording_stream' = Len(streams) + 1
              /\ last' = [Handler("start_recording") EXCEPT
                             !.dialogs = <<"Recording Error">>,
                             !.failures = <<"stream">>]
         [] how = "started" ->
              /\ streams' = Append(streams, [state |-> "active", delivered |-> 0])
              /\ recording_stream' = Len(streams) + 1
              /\ last' = Handler("start_recording")
    /\ UNCHANGED <<pureVars, popups, panelVars, inline_errors, tag_ranges, temp_file>>

StartOutcomes == {"started", "InputStream raises", "start raises"}

\* The call of stop_recording that raises, if any; a failed sf.write may leave
\* a file behind.
StopOutcomes ==
    {"none", "stop", "close", "sf.write", "sf.write leaves a file", "check_grammar",
     "advanced_style_analysis", "os.remove"}

\* stop_recording(): delta is time.time() - recording_start_time.
StopRecording(outcome, tr, delta) ==
    LET h == Handler("stop_recording")
        t == transcribe_audio(tr)
        a == Analyses[t.text, delta]
        error == <<"Recording Error">>
    IN
    /\ IF recording_stream = NoStream
       THEN /\ timer_label' = "Recording was not started."
            /\ last' = h
            /\ UNCHANGED <<recorderVars, panelVars, inline_errors, tag_ranges, temp_file>>
       ELSE IF outcome = "stop"
       THEN /\ last' = [h EXCEPT !.dialogs = error, !.failures = <<"stream">>]
            /\ UNCHANGED <<recorderVars, timer_label, panelVars, inline_errors, tag_ranges,
                           temp_file>>
       ELSE IF outcome = "close"
       THEN /\ streams' = [streams EXCEPT ![recording_stream].state = "stopped"]
            /\ last' = [h EXCEPT !.dialogs = error, !.failures = <<"stream">>]
            /\ UNCHANGED <<recording_stream, recorded_frames, recording_start_time,
                           timer_job, after_jobs, timer_label, panelVars,
                           inline_errors, tag_ranges, temp_file>>
       ELSE /\ streams' = [streams EXCEPT ![recording_stream].state = "closed"]
            /\ recording_stream' = NoStream
            /\ IF timer_job # NoJob
               THEN after_jobs' = after_jobs \ {timer_job} /\ timer_job' = NoJob
               ELSE UNCHANGED <<after_jobs, timer_job>>
            /\ UNCHANGED <<recorded_frames, recording_start_time>>
            /\ IF ~HasFrames(recorded_frames)
               THEN /\ timer_label' = "No audio data recorded."
                    /\ last' = [h EXCEPT !.closed = TRUE]
                    /\ UNCHANGED <<panelVars, inline_errors, tag_ranges, temp_file>>
               ELSE IF outcome \in {"sf.write", "sf.write leaves a file"}
               THEN /\ temp_file' = IF outcome = "sf.write leaves a file"
                                    THEN [exists |-> TRUE, data |-> <<>>]
                                    ELSE temp_file
                    /\ last' = [h EXCEPT !.closed = TRUE, !.dialogs = error,
                                         !.failures = <<"sf.write">>]
                    /\ UNCHANGED <<timer_label, panelVars, inline_errors, tag_ranges>>
               ELSE IF outcome \in {"check_grammar", "advanced_style_analysis"}
                       \/ a.exc # None
               THEN /\ temp_file' = [exists |-> TRUE, data |-> recorded_frames]
                    /\ timer_label' = "Recording Stopped"
                    /\ last' = [h EXCEPT !.closed = TRUE, !.wrote = TRUE,
                                         !.transcribed = TRUE,
                                         !.failures = t.failures \o Raised(outcome),
                                         !.dialogs = t.dialogs \o error]
                    /\ UNCHANGED <<panelVars, inline_errors, tag_ranges>>
               ELSE /\ timer_label' = "Recording Stopped"
                    /\ ShowAnalysis(a)
                    /\ ClearInlineErrors
                    /\ temp_file' = IF outcome = "os.remove"
                                    THEN [exists |-> TRUE, data |-> recorded_frames]
                                    ELSE [exists |-> FALSE, data |-> <<>>]
                    /\ last' = [h EXCEPT !.closed = TRUE, !.wrote = TRUE,
                                         !.transcribed = TRUE,
                                         !.remove_failed = (outcome = "os.remove"),
                                         !.failures =
                                             IF outcome = "os.remove"
                                             THEN t.failures \o <<"os.remove">>
                                             ELSE t.failures,
                                         !.dialogs = t.dialogs]
    /\ UNCHANGED <<pureVars, popups>>

\* The inputs a handler reads on the path it takes; those it does not read
\* are not enumerated.
Unread(S) == {CHOOSE x \in S : TRUE}

StreamRaises == {"stop", "close"}
WriteRaises == {"sf.write", "sf.write leaves a file"}

StopOutcomesNow ==
    IF recording_stream = NoStream THEN {"none"}
    ELSE IF ~HasFrames(recorded_frames) THEN {"none"} \cup StreamRaises
    ELSE StopOutcomes

Transcribes(outcome) ==
    /\ recording_stream # NoStream
    /\ HasFrames(recorded_frames)
    /\ outcome \notin StreamRaises \cup WriteRaises

Next ==
    \/ \E outcome \in ProcessOutcomes :
         \E tr \in IF outcome = "cancel" THEN Unread(TranscribeOutcomes)
                   ELSE TranscribeOutcomes,
            info \in IF outcome = "none" THEN FileInfos ELSE Unread(FileInfos) :
           ProcessFile(outcome, tr, info)
    \/ \E id \in 1..Len(streams) : AudioCallback(id)
    \/ \E job \in after_jobs, elapsed \in {1, MaxDuration} : UpdateTimer(job, elapsed)
    \/ \E how \in StartOutcomes : StartRecording(how)
    \/ \E outcome \in StopOutcomesNow :
         \E tr \in IF Transcribes(outcome) THEN TranscribeOutcomes
                   ELSE Unread(TranscribeOutcomes),
            delta \in IF Transcribes(outcome) /\ outcome \in {"none", "os.remove"}
                      THEN RecordingDeltas ELSE Unread(RecordingDeltas) :
           StopRecording(outcome, tr, delta)

Spec == Init /\ [][Next]_vars

---------------------------------------------------------------------------
(* The correction handlers: inline correction, its popups, the full        *)
(* correction and the comparison window.                                   *)

\* s with the characters lo..hi-1 (counted from 0) replaced by repl.
StrReplace(s, lo, hi, repl) ==
    SubSeq(s, 1, lo) \o repl \o SubSeq(s, hi + 1, Len(s))

\* language_tool_python's correct(text, matches): every match that has
\* replacements is replaced by the first of them, offsets moving along.
RECURSIVE CorrectFrom(_, _, _, _)
CorrectFrom(text, ms, i, correct_offset) ==
    IF i > Len(ms) THEN text
    ELSE IF Len(ms[i].replacements) = 0
    THEN CorrectFrom(text, ms, i + 1, correct_offset)
    ELSE LET frompos == correct_offset + ms[i].offset
             topos == frompos + ms[i].errorLength
             repl == ms[i].replacements[1]
         IN  CorrectFrom(StrReplace(text, frompos, topos, repl), ms, i + 1,
                         correct_offset + Len(repl) - ms[i].errorLength)

\* tool.correct(text)
ToolCorrect(text) == CorrectFrom(text, ToolCheck(text), 1, 0)

\* str.strip()
RECURSIVE StripLeft(_)
StripLeft(s) ==
    IF Len(s) > 0 /\ CharAt(s, 1) \in Whitespace
    THEN StripLeft(SubSeq(s, 2, Len(s)))
    ELSE s

RECURSIVE StripRight(_)
StripRight(s) ==
    IF Len(s) > 0 /\ CharAt(s, Len(s)) \in Whitespace
    THEN StripRight(SubSeq(s, 1, Len(s) - 1))
    ELSE s

StrStrip(s) == StripLeft(StripRight(s))

\* transcript_text.get("1.0", tk.END): the text and the newline Tk ends it with.
TextToEnd(text) == text \o "\n"

\* tag = f"error_{i}"
TagName(i) == "error_" \o ToString(i)

\* The entries inline_error_correction puts in inline_errors for the matches.
Registry(ms) == {[tag |-> TagName(i - 1), match |-> ms[i]] : i \in 1..Len(ms)}

\* The ranges tag_add gives the tags: offset .. offset + errorLength.
Highlights(ms) ==
    {[tag |-> TagName(i - 1), start_index |-> ms[i].offset,
      end_index |-> ms[i].offset + ms[i].errorLength] : i \in 1..Len(ms)}

\* Where Tk moves the range of a tag when the characters lo..hi-1 are
\* deleted and n characters inserted at lo: a range emptied by the
\* deletion is dropped, and the inserted characters get a tag only when the
\* characters on both sides have it.
AfterDelete(p, lo, hi) ==
    IF p <= lo THEN p ELSE IF p >= hi THEN p - (hi - lo) ELSE lo

MovedRanges(ranges, lo, hi, n) ==
    LET deleted == {[tag |-> r.tag, start_index |-> AfterDelete(r.start_index, lo, hi),
                     end_index |-> AfterDelete(r.end_index, lo, hi)] : r \in ranges}
        left == {r \in deleted : r.start_index < r.end_index}
    IN  {IF r.end_index <= lo THEN r
         ELSE IF r.start_index < lo
         THEN [r EXCEPT !.end_index = @ + n]
         ELSE [r EXCEPT !.start_index = @ + n, !.end_index = @ + n] : r \in left}

\* del inline_errors[tag]
WithoutEntry(entries, tag) == {e \in entries : e.tag # tag}

\* transcript_text.tag_delete(tag)
WithoutTag(ranges, tag) == {r \in ranges : r.tag # tag}

\* s without its element i: a window destroyed.
Destroyed(s, i) == SubSeq(s, 1, i - 1) \o SubSeq(s, i + 1, Len(s))

\* inline_error_correction(): raises is whether tool.check raises.
InlineErrorCorrection(raises) ==
    LET ms == ToolCheck(transcript_text)
        cleared == {r \in tag_ranges : \A e \in inline_errors : e.tag # r.tag}
    IN  /\ IF raises
           THEN /\ inline_errors' = {}
                /\ tag_ranges' = cleared
                /\ last' = [Handler("inline_error_correction") EXCEPT
                               !.failures = <<"tool.check">>, !.escaped = TRUE]
           ELSE /\ inline_errors' = Registry(ms)
                /\ tag_ranges' = cleared \cup Highlights(ms)
                /\ last' = Handler("inline_error_correction")
        /\ UNCHANGED <<pureVars, recorderVars, timer_label, panelVars, popups,
                       temp_file>>

\* error_click_callback(event, tag): a click on the text that carries tag.
ErrorClickCallback(tag) ==
    /\ \E r \in tag_ranges : r.tag = tag
    /\ Len(popups) < MaxPopups
    /\ IF \E e \in inline_errors : e.tag = tag
       THEN LET e == CHOOSE e \in inline_errors : e.tag = tag
            IN  popups' = Append(popups, [tag |-> tag, match |-> e.match])
       ELSE UNCHANGED popups
    /\ last' = Handler("error_click_callback")
    /\ UNCHANGED <<pureVars, recorderVars, timer_label, panelVars, inline_errors,
                   tag_ranges, temp_file>>

\* The values the radio buttons of a popup give suggestion_var: "" until one
\* is selected.
Suggestions(popup) ==
    {""} \cup {popup.match.replacements[k] : k \in 1..Len(popup.match.replacements)}

\* apply_correction() of popup i, suggestion selected.
ApplyCorrection(i, suggestion) ==
    LET tag == popups[i].tag
        ranges == {r \in tag_ranges : r.tag = tag}
    IN  /\ IF suggestion = ""
           THEN /\ last' = [Handler("apply_correction") EXCEPT
                               !.dialogs = <<"No Selection">>]
                /\ UNCHANGED <<transcript_text, tag_ranges, inline_errors, popups>>
           ELSE IF ranges = {}
           THEN /\ popups' = Destroyed(popups, i)
                /\ last' = Handler("apply_correction")
                /\ UNCHANGED <<transcript_text, tag_ranges, inline_errors>>
           ELSE LET r == CHOOSE r \in ranges : TRUE
                IN  /\ transcript_text' =
                           StrReplace(transcript_text, r.start_index, r.end_index, suggestion)
                    /\ tag_ranges' =
                           WithoutTag(MovedRanges(tag_ranges, r.start_index, r.end_index,
                                                  Len(suggestion)), tag)
                    /\ inline_errors' = WithoutEntry(inline_errors, tag)
                    /\ popups' = Destroyed(popups, i)
                    /\ last' = Handler("apply_correction")
        /\ UNCHANGED <<pureVars, recorderVars, timer_label, score_label, errors_text,
                       style_text, report_text, temp_file>>

\* The Cancel button of popup i: popup.destroy
CancelPopup(i) ==
    /\ popups' = Destroyed(popups, i)
    /\ last' = Handler("popup.destroy")
    /\ UNCHANGED <<pureVars, recorderVars, timer_label, panelVars, inline_errors,
                   tag_ranges, temp_file>>

\* correct_transcript(): raises is whether tool.correct raises.
CorrectTranscript(raises) ==
    LET text == StrStrip(TextToEnd(transcript_text))
    IN  /\ IF text = ""
           THEN /\ last' = [Handler("correct_transcript") EXCEPT
                               !.dialogs = <<"Correction">>]
                /\ UNCHANGED <<transcript_text, inline_errors, tag_ranges>>
           ELSE IF raises
           THEN /\ last' = [Handler("correct_transcript") EXCEPT
                               !.dialogs = <<"Correction Error">>,
                               !.failures = <<"correction">>]
                /\ UNCHANGED <<transcript_text, inline_errors, tag_ranges>>
           ELSE /\ transcript_text' = ToolCorrect(text)
                /\ ClearInlineErrors
                /\ last' = [Handler("correct_transcript") EXCEPT
                               !.dialogs = <<"Correction">>]
        /\ UNCHANGED <<pureVars, recorderVars, timer_label, score_label, errors_text,
                       style_text, report_text, popups, temp_file>>

\* show_comparison_mode(): raises is whether tool.correct raises.
ShowComparisonMode(raises) ==
    LET original == transcript_text
    IN  /\ IF raises
           THEN /\ last' = [Handler("show_comparison_mode") EXCEPT
                               !.failures = <<"correction">>, !.escaped = TRUE]
           ELSE /\ last' = [Handler("show_comparison_mode") EXCEPT
                               !.comp_window = <<original, ToolCorrect(original)>>]
        /\ UNCHANGED <<pureVars, recorderVars, timer_label, panelVars, inline_errors,
                       tag_ranges, popups, temp_file>>

\* The correction handlers, on the inputs they read.
Corrections ==
    \/ \E raises \in BOOLEAN : InlineErrorCorrection(raises)
    \/ \E tag \in {r.tag : r \in tag_ranges} : ErrorClickCallback(tag)
    \/ \E i \in 1..Len(popups) :
         \E suggestion \in Suggestions(popups[i]) : ApplyCorrection(i, suggestion)
    \/ \E i \in 1..Len(popups) : CancelPopup(i)
    \/ \E raises \in IF StrStrip(TextToEnd(transcript_text)) = ""
                      THEN Unread(BOOLEAN) ELSE BOOLEAN :
         CorrectTranscript(raises)
    \/ \E raises \in BOOLEAN : ShowComparisonMode(raises)

\* The application with the correction handlers: the transcript comes from a
\* file or from one recording, the timer left aside.
NextEditor ==
    \/ \E outcome \in ProcessOutcomes :
         \E tr \in IF outcome = "cancel" THEN Unread(TranscribeOutcomes)
                   ELSE TranscribeOutcomes,
            info \in IF outcome = "none" THEN FileInfos ELSE Unread(FileInfos) :
           ProcessFile(outcome, tr, info)
    \/ \E how \in StartOutcomes : streams = <<>> /\ StartRecording(how)
    \/ \E id \in 1..Len(streams) : AudioCallback(id)
    \/ \E outcome \in StopOutcomesNow :
         \E tr \in IF Transcribes(outcome) THEN TranscribeOutcomes
                   ELSE Unread(TranscribeOutcomes),
            delta \in IF Transcribes(outcome) /\ outcome \in {"none", "os.remove"}
                      THEN RecordingDeltas ELSE Unread(RecordingDeltas) :
           StopRecording(outcome, tr, delta)
    \/ Corrections

SpecEditor == Init /\ [][NextEditor]_vars

---------------------------------------------------------------------------
(* The claims about the pure functions.                                    *)

\* The number of matches of a list that classify_error puts in a category.
CountIn(ms, cat) ==
    Cardinality({i \in 1..Len(ms) : classify_error(ms[i]) = cat})

\* C1: for every list of matches, check_grammar returns the score
\* max(100 - (3*G + 2*T + 1*P + 1.5*S), 0), G, T, P, S being the numbers of
\* matches classify_error puts in GRAMMAR, TYPOS, PUNCTUATION and STYLE (both
\* sides doubled: the score is kept in half points).
C1_WeightedScore ==
    pc = "check_grammar:returned" =>
        LET G == CountIn(matches, "GRAMMAR")
            T == CountIn(matches, "TYPOS")
            P == CountIn(matches, "PUNCTUATION")
            S == CountIn(matches, "STYLE")
        IN  overall_score = Max(2 * 100 - (2 * 3 * G + 2 * 2 * T + 2 * 1 * P + 3 * S), 0)

\* A list with two GRAMMAR matches and one TYPOS match has been scored 92.
C1_Witness ==
    /\ pc = "check_grammar:returned"
    /\ CountIn(matches, "GRAMMAR") = 2
    /\ CountIn(matches, "TYPOS") = 1
    /\ CountIn(matches, "PUNCTUATION") = 0
    /\ CountIn(matches, "STYLE") = 0
    /\ overall_score = 2 * 92

\* C2: for every breakdown the score lies in [0, 100], and it is exactly 100
\* when the four counts are 0.
C2_ScoreInRange ==
    pc = "score:returned" =>
        /\ overall_score >= 0
        /\ overall_score <= 2 * 100
        /\ (\A c \in Categories : error_breakdown[c] = 0) => overall_score = 2 * 100

\* A breakdown whose penalty exceeds 100 has been scored 0.
C2_Witness ==
    /\ pc = "score:returned"
    /\ 2 * 3 * error_breakdown["GRAMMAR"] + 2 * 2 * error_breakdown["TYPOS"]
         + 2 * error_breakdown["PUNCTUATION"] + 3 * error_breakdown["STYLE"] > 2 * 100
    /\ overall_score = 0

\* C3: the score does not increase when one count grows and the other three
\* stay: every breakdown that differs from the scored one by a larger count
\* in one category has a score that is less or equal.
C3_ScoreMonotone ==
    pc = "score:returned" =>
        \A c \in Categories :
            \A n \in (error_breakdown[c] + 1)..(MaxCount + 1) :
                OverallScore([error_breakdown EXCEPT ![c] = n]) <= overall_score

\* A positive score that one more STYLE error lowers strictly, and that
\* enough more GRAMMAR errors bring to 0.
C3_Witness ==
    /\ pc = "score:returned"
    /\ overall_score > 0
    /\ OverallScore([error_breakdown EXCEPT !["STYLE"] = @ + 1]) < overall_score
    /\ \E n \in (error_breakdown["GRAMMAR"] + 1)..(MaxCount + 1) :
           OverallScore([error_breakdown EXCEPT !["GRAMMAR"] = n]) = 0

\* Whether keyword kw occurs in message msg, letter case ignored.
HasKeyword(msg, kw) ==
    \E i \in 1..(Len(msg) - Len(kw) + 1) :
        \A j \in 1..Len(kw) : LowerChar(CharAt(msg, i + j - 1)) = CharAt(kw, j)

\* C4: classify_error returns one of the four categories for every match, by
\* the first of these that applies: the spelling rule id or "spelling" in the
\* message gives TYPOS, "punctuation" gives PUNCTUATION, "style" or
\* "readability" gives STYLE, anything else GRAMMAR; the message is matched
\* without regard to case, and a message that meets the TYPOS or PUNCTUATION
\* condition is never STYLE.
C4_ClassifyFirstMatch ==
    pc = "classify_error:returned" =>
        LET typo  == \/ match.ruleId = "MORFOLOGIK_RULE_EN_US"
                     \/ HasKeyword(match.message, "spelling")
            punct == HasKeyword(match.message, "punctuation")
            style == \/ HasKeyword(match.message, "style")
                     \/ HasKeyword(match.message, "readability")
        IN  /\ category \in Categories
            /\ category = (IF typo THEN "TYPOS"
                           ELSE IF punct THEN "PUNCTUATION"
                           ELSE IF style THEN "STYLE"
                           ELSE "GRAMMAR")
            /\ (typo \/ punct) => category # "STYLE"

\* A message with "Punctuation" and "Style", capitalised, was classified
\* PUNCTUATION.
C4_Witness ==
    /\ pc = "classify_error:returned"
    /\ match.ruleId # "MORFOLOGIK_RULE_EN_US"
    /\ match.message = "Check the Punctuation; this Style is informal"
    /\ category = "PUNCTUATION"

\* C5: compute_metrics returns wpm = 0 whenever the duration is <= 0, for every
\* transcript, and raises no ZeroDivisionError for any duration; a file whose
\* duration cannot be read is given the duration 0 and so the rate 0.
C5_ZeroRateWithoutDuration ==
    pc = "compute_metrics:returned" =>
        /\ metrics.exc = None
        /\ audio_duration <= 0 => metrics.val.wpm = 0
        /\ (caller = "process_file" /\ duration_read.exc # None) => audio_duration = 0

\* The duration of a file could not be read, the transcript has words, and the
\* rate returned is 0.
C5_Witness ==
    /\ pc = "compute_metrics:returned"
    /\ caller = "process_file"
    /\ duration_read.exc # None
    /\ audio_duration = 0
    /\ metrics.exc = None
    /\ metrics.val.word_count > 0
    /\ metrics.val.wpm = 0

\* The number of words: the characters that start a run of non-whitespace.
WordStarts(s) ==
    Cardinality({i \in 1..Len(s) :
                    /\ CharAt(s, i) \notin Whitespace
                    /\ (i = 1 \/ CharAt(s, i - 1) \in Whitespace)})

\* The number of places of s where sub occurs, letter case of s ignored.
Occurrences(s, sub) ==
    Cardinality({i \in 1..(Len(s) - Len(sub) + 1) :
                    \A j \in 1..Len(sub) :
                        LowerChar(CharAt(s, i + j - 1)) = CharAt(sub, j)})

LexiconOccurrences(s) ==
    Occurrences(s, "um") + Occurrences(s, "uh") + Occurrences(s, "like")
    + Occurrences(s, "you know") + Occurrences(s, "ah") + Occurrences(s, "er")

\* The parts of C6 that do not concern the speaking rate.
C6_CountsAndScenarios ==
    /\ metrics.exc = None
    /\ metrics.val.word_count = WordStarts(transcript)
    /\ metrics.val.filler_count = LexiconOccurrences(transcript)
    /\ (transcript = "um so like I went" /\ audio_duration = 10) =>
           /\ metrics.val.word_count = 5
           /\ metrics.val.wpm = 100 * 30
           /\ metrics.val.filler_count = 2
    /\ (transcript = "" /\ audio_duration = 0) =>
           /\ metrics.val.word_count = 0
           /\ metrics.val.wpm = 0
           /\ metrics.val.filler_count = 0

\* C6 as claimed: wpm is word_count / (duration / 60) itself for a duration
\* > 0 (wpm is kept in hundredths), with the counts and the two scenarios.
C6_ExactRate ==
    pc = "compute_metrics:returned" =>
        /\ C6_CountsAndScenarios
        /\ audio_duration > 0 =>
               metrics.val.wpm * audio_duration = 100 * 60 * metrics.val.word_count

\* C6 as amended: wpm is word_count / (duration / 60) rounded to two decimals,
\* that is a whole number of hundredths at most half a hundredth away from it.
C6_RoundedRate ==
    pc = "compute_metrics:returned" =>
        /\ C6_CountsAndScenarios
        /\ audio_duration > 0 =>
               LET exact == 100 * 60 * metrics.val.word_count   \* times the duration
                   got   == metrics.val.wpm * audio_duration
               IN  /\ 2 * (got - exact) <= audio_duration
                   /\ 2 * (exact - got) <= audio_duration

\* The scenario "um so like I went" in 10 seconds has been computed.
C6_Witness ==
    /\ pc = "compute_metrics:returned"
    /\ transcript = "um so like I went"
    /\ audio_duration = 10
    /\ metrics.val.word_count = 5
    /\ metrics.val.wpm = 100 * 30
    /\ metrics.val.filler_count = 2

\* The tags observed in a list of details, and where each is first observed.
ObservedTags(details) ==
    {cat \in Categories :
        \E i \in 1..Len(details) : StrIn("Category: " \o cat, details[i])}

FirstDetailWith(details, cat) ==
    CHOOSE i \in 1..Len(details) :
        /\ StrIn("Category: " \o cat, details[i])
        /\ \A j \in 1..(i - 1) : ~StrIn("Category: " \o cat, details[j])

\* The orders of the observed tags that follow their first occurrence in the
\* list: a tag first observed in an earlier detail comes first.
FirstOccurrenceOrders(details) ==
    LET tags == ObservedTags(details)
        n == Cardinality(tags)
    IN  {order \in [1..n -> tags] :
            /\ \A a, b \in 1..n : a # b => order[a] # order[b]
            /\ \A a, b \in 1..n :
                   a < b => FirstDetailWith(details, order[a])
                              <= FirstDetailWith(details, order[b])}

CannedSuggestion ==
    [TYPOS |-> "Review suggested corrections for typos and consider using a spell-checker.",
     GRAMMAR |-> "Review grammar suggestions and study common grammatical patterns.",
     PUNCTUATION |-> "Review punctuation guidelines to improve sentence clarity.",
     STYLE |-> "Consider revising stylistically ambiguous sentences for better readability."]

RECURSIVE SpaceJoined(_, _)
SpaceJoined(order, k) ==
    IF k > Len(order) THEN ""
    ELSE (IF k > 1 THEN " " ELSE "") \o CannedSuggestion[order[k]]
         \o SpaceJoined(order, k + 1)

\* C7: for every list of details the feedback is the canned suggestions of the
\* distinct tags observed in the list, each once, in the order of the tags'
\* first occurrence in the list, joined by single spaces; with no tag observed
\* it is the fixed sentence.
C7_FeedbackOncePerTag ==
    pc = "contextual_language_feedback:returned" =>
        IF ObservedTags(error_details) = {}
        THEN contextual_feedback = "No additional contextual feedback available."
        ELSE \E order \in FirstOccurrenceOrders(error_details) :
                 contextual_feedback = SpaceJoined(order, 1)

\* A list in which a tag is observed in two details, and another tag after it:
\* the feedback holds the two suggestions once each.
C7_Witness ==
    /\ pc = "contextual_language_feedback:returned"
    /\ Len(error_details) = 3
    /\ StrIn("Category: TYPOS", error_details[1])
    /\ StrIn("Category: GRAMMAR", error_details[2])
    /\ StrIn("Category: TYPOS", error_details[3])
    /\ ObservedTags(error_details) = {"TYPOS", "GRAMMAR"}
    /\ contextual_feedback =
           CannedSuggestion["TYPOS"] \o " " \o CannedSuggestion["GRAMMAR"]

---------------------------------------------------------------------------
(* The claims about the recording controller.                              *)

\* A step of stop_recording, and one of start_recording.
StopStep == last'.op = "stop_recording"
StartStep == last'.op = "start_recording"

NothingProcessed ==
    /\ temp_file' = temp_file
    /\ ~last'.wrote
    /\ ~last'.transcribed
    /\ UNCHANGED panelVars

\* C8 as claimed: stop_recording invoked with no active stream, or with an
\* active stream and an empty buffer, only sets the status message ("Recording
\* was not started." or "No audio data recorded."): no temporary file is
\* written, the analysis is not run, the five panels are unchanged and no
\* error dialog is shown.
C8_IdleStopOnlyReports ==
    [][(StopStep /\ (recording_stream = NoStream \/ Len(recorded_frames) = 0)) =>
           /\ NothingProcessed
           /\ last'.dialogs = <<>>
           /\ timer_label' = IF recording_stream = NoStream
                             THEN "Recording was not started."
                             ELSE "No audio data recorded."]_vars

\* C8 as amended: the same, unless stopping or closing the active stream
\* raises; then the error dialog is shown in place of the status message, and
\* still nothing is written, analysed or changed in the panels.
C8_IdleStopReportsOrFails ==
    [][(StopStep /\ (recording_stream = NoStream \/ Len(recorded_frames) = 0)) =>
           /\ NothingProcessed
           /\ IF recording_stream = NoStream
              THEN /\ last'.dialogs = <<>>
                   /\ timer_label' = "Recording was not started."
              ELSE IF streams'[recording_stream].state = "closed"
              THEN /\ last'.dialogs = <<>>
                   /\ timer_label' = "No audio data recorded."
              ELSE /\ last'.dialogs = <<"Recording Error">>
                   /\ timer_label' = timer_label]_vars

\* stop_recording has reported an empty buffer over the panels of an earlier
\* analysis.
C8_Witness ==
    /\ last.op = "stop_recording"
    /\ timer_label = "No audio data recorded."
    /\ last.dialogs = <<>>
    /\ transcript_text # ""
    /\ ~temp_file.exists

\* C9 as claimed: when stop_recording returns from an active recording the
\* stream is closed, its handle cleared and the buffered frames cleared; and
\* start_recording begins with an empty buffer.
C9_SessionDestroyedOnStop ==
    [][/\ (StopStep /\ recording_stream # NoStream) =>
              /\ streams'[recording_stream].state = "closed"
              /\ recording_stream' = NoStream
              /\ recorded_frames' = <<>>
       /\ StartStep => recorded_frames' = <<>>]_vars

\* C9 as amended: when stop_recording returns from an active recording whose
\* stream it stopped and closed, the handle is cleared (IDLE) and the frames
\* stay in the buffer; when stopping or closing raised, the error dialog is
\* shown and the handle kept. start_recording empties the buffer, and leaves
\* a handle set (RECORDING) when the stream was created.
C9_StreamClosedFramesKept ==
    [][/\ (StopStep /\ recording_stream # NoStream) =>
              /\ recorded_frames' = recorded_frames
              /\ IF streams'[recording_stream].state = "closed"
                 THEN recording_stream' = NoStream
                 ELSE /\ recording_stream' = recording_stream
                      /\ last'.dialogs = <<"Recording Error">>
       /\ StartStep =>
              /\ recorded_frames' = <<>>
              /\ Len(streams') > Len(streams) =>
                     /\ recording_stream' = Len(streams')
                     /\ recording_stream' # NoStream]_vars

\* stop_recording has closed the stream of a recording and cleared the handle,
\* and the chunks recorded are still in the buffer.
C9_Witness ==
    /\ last.op = "stop_recording"
    /\ last.closed
    /\ recording_stream = NoStream
    /\ Len(recorded_frames) > 0
    /\ \A id \in 1..Len(streams) : streams[id].state = "closed"

\* C10: whenever stop_recording has written the temporary file, the file is
\* gone when stop_recording returns, whichever later step raised, unless
\* deleting it failed.
C10_TempFileDeleted ==
    (last.op = "stop_recording" /\ last.wrote /\ ~last.remove_failed) =>
        ~temp_file.exists

---------------------------------------------------------------------------
(* The claims about the handlers' failures and the correction modes.       *)

FailureKinds == {"transcription", "stream", "correction"}

ErrorDialog ==
    [transcription |-> "Transcription Error", stream |-> "Recording Error",
     correction |-> "Correction Error"]

\* C11: a handler in which a transcription, a stream or a bulk correction
\* failure occurs (and nothing else fails) shows the error dialog of that
\* failure and returns normally, no exception escaping it.
C11_FailuresSurfaced ==
    [][\A k \in FailureKinds :
          last'.failures = <<k>> =>
              /\ \E i \in 1..Len(last'.dialogs) : last'.dialogs[i] = ErrorDialog[k]
              /\ ~last'.escaped]_vars

\* The same of every handler but show_comparison_mode.
C11_SurfacedButInComparison ==
    [][\A k \in FailureKinds :
          last'.failures = <<k>> /\ last'.op # "show_comparison_mode" =>
              /\ \E i \in 1..Len(last'.dialogs) : last'.dialogs[i] = ErrorDialog[k]
              /\ ~last'.escaped]_vars

StyleReturned == pc = "advanced_style_analysis:returned"

GradeSuggestion == "Simplify sentence structure to lower the reading grade level."
FogSuggestion == "Reduce vocabulary complexity to lower the Gunning Fog Index."
EffectiveStyle == "Your writing style is effective."

\* C12: the comment of advanced_style_analysis is "clear" above 60, "moderately
\* complex" above 40 and up to 60, "hard to read" at 40 and below; the
\* recommendations are the grade-level suggestion when the grade is above 10,
\* then the fog suggestion when the fog index is above 12, and the
\* affirmative message exactly when neither is.
C12_StyleThresholds ==
    StyleReturned =>
        LET r == style_analysis
            tripsGrade == indices.fk_grade > 10 * 100
            tripsFog == indices.gunning > 12 * 100
        IN  /\ indices.fre > 60 * 100 =>
                   r.style_comment = "The text is clear and easily understandable."
            /\ indices.fre > 40 * 100 /\ indices.fre <= 60 * 100 =>
                   r.style_comment =
                       "The text is moderately complex; consider simplifying sentences for clarity."
            /\ indices.fre <= 40 * 100 =>
                   r.style_comment =
                       "The text is hard to read; consider revising for improved clarity and tone."
            /\ tripsGrade /\ tripsFog =>
                   r.advanced_recommendations = GradeSuggestion \o " " \o FogSuggestion
            /\ tripsGrade /\ ~tripsFog => r.advanced_recommendations = GradeSuggestion
            /\ ~tripsGrade /\ tripsFog => r.advanced_recommendations = FogSuggestion
            /\ (r.advanced_recommendations = EffectiveStyle) <=> (~tripsGrade /\ ~tripsFog)

\* The analysis has returned for a reading ease of exactly 40, a grade of
\* exactly 10 and a fog index just over 12.
C12_Witness ==
    /\ StyleReturned
    /\ indices.fre = 40 * 100
    /\ indices.fk_grade = 10 * 100
    /\ indices.gunning = 12 * 100 + 1
    /\ style_analysis.advanced_recommendations = FogSuggestion

\* The steps that, the claim says, empty the registry: a completed file
\* analysis, a completed recording analysis, a successful full correction.
Shows(title) == \E i \in 1..Len(last'.dialogs) : last'.dialogs[i] = title

AnalysisCompleted ==
    /\ last'.op \in {"process_file", "stop_recording"}
    /\ last'.transcribed
    /\ ~last'.escaped
    /\ ~Shows("Recording Error")

FullCorrectionDone ==
    /\ last'.op = "correct_transcript"
    /\ last'.failures = <<>>
    /\ StrStrip(TextToEnd(transcript_text)) # ""

\* The text a match is about, and the text a range of the widget covers.
Erroneous(m) == SubSeq(m.context, m.offset + 1, m.offset + m.errorLength)
Covered(text, r) == SubSeq(text, r.start_index + 1, r.end_index)

\* Every replacement a match of the model suggests.
AllReplacements ==
    UNION {{GrammarRules[k].replacements[j] :
               j \in 1..Len(GrammarRules[k].replacements)} :
           k \in 1..Len(GrammarRules)}

\* An apply_correction step that replaces the text of the span of entry e,
\* of range r, by repl, and removes that entry and that tag only.
Replaces(e, r, repl) ==
    /\ r.tag = e.tag
    /\ transcript_text' =
           SubSeq(transcript_text, 1, r.start_index) \o repl
           \o SubSeq(transcript_text, r.end_index + 1, Len(transcript_text))
    /\ inline_errors' = inline_errors \ {e}
    /\ {t.tag : t \in tag_ranges'} = {t.tag : t \in tag_ranges} \ {e.tag}

Offered(m) == {m.replacements[j] : j \in 1..Len(m.replacements)}

\* What the steps other than apply_correction do to the registry:
\* inline_error_correction replaces it by one entry and one highlighted span
\* per match of the transcript displayed; a completed analysis and a
\* successful full correction empty it; no other step changes it; and every
\* span highlighted covers the erroneous text of its entry.
RegistrySteps ==
    /\ last'.op = "inline_error_correction" =>
          LET ms == IF last'.escaped THEN <<>> ELSE ToolCheck(transcript_text)
          IN  /\ Cardinality(inline_errors') = Len(ms)
              /\ Cardinality(tag_ranges') = Len(ms)
              /\ \A i \in 1..Len(ms) :
                     /\ [tag |-> "error_" \o ToString(i - 1), match |-> ms[i]]
                            \in inline_errors'
                     /\ \E r \in tag_ranges' :
                            /\ r.tag = "error_" \o ToString(i - 1)
                            /\ r.start_index = ms[i].offset
                            /\ r.end_index = ms[i].offset + ms[i].errorLength
    /\ AnalysisCompleted \/ FullCorrectionDone =>
          inline_errors' = {} /\ tag_ranges' = {}
    /\ ~(\/ last'.op \in {"inline_error_correction", "apply_correction"}
         \/ AnalysisCompleted
         \/ FullCorrectionDone) =>
          UNCHANGED <<inline_errors, tag_ranges>>
    /\ \A r \in tag_ranges' :
          \E e \in inline_errors' :
             /\ e.tag = r.tag
             /\ Covered(transcript_text', r) = Erroneous(e.match)

\* C13: inline_errors holds exactly the matches of the latest inline
\* correction that have not been corrected since: inline_error_correction
\* rebuilds it from scratch, an applied suggestion replaces the text of the
\* span it was offered for and removes that entry and that tag only, and a
\* completed analysis or a successful full correction leaves it empty.
C13_RegistryTracksInline ==
    [][/\ RegistrySteps
       /\ last'.op = "apply_correction" =>
             \/ UNCHANGED <<transcript_text, inline_errors, tag_ranges>>
             \/ \E e \in inline_errors, r \in tag_ranges :
                    \E repl \in Offered(e.match) : Replaces(e, r, repl)]_vars

\* The same, but for the suggestion applied: it may be one offered for another
\* match, that of a popup opened before the registry was rebuilt.
C13_RegistryButStalePopups ==
    [][/\ RegistrySteps
       /\ last'.op = "apply_correction" =>
             \/ UNCHANGED <<transcript_text, inline_errors, tag_ranges>>
             \/ \E e \in inline_errors, r \in tag_ranges :
                    \E repl \in AllReplacements : Replaces(e, r, repl)]_vars

---------------------------------------------------------------------------
(* The claims about the timer and the audio callback.                      *)

StartFailed == StartStep /\ last'.failures = <<"stream">>

\* C14: at most one timer callback is pending at any time, and none is
\* pending once stop_recording has returned or start_recording has failed.
C14_TimerOnlyWhileRecording ==
    [][/\ Cardinality(after_jobs') <= 1
       /\ StopStep \/ StartFailed => after_jobs' = {}]_vars

\* The streams not closed, and the chunks a stream has delivered, in order.
OpenStreams(ss) == {id \in 1..Len(ss) : ss[id].state # "closed"}
Delivered(id) == [k \in 1..streams[id].delivered |-> <<id, k>>]

\* C15: at most one input stream is open at any time; the audio stop_recording
\* saves is the chunks delivered by the stream of the latest start_recording,
\* each once and in delivery order; and a chunk is appended to the buffer only
\* by the stream being recorded, never after stop_recording has closed it.
C15_SavedAudioIsLatestStream ==
    [][/\ Cardinality(OpenStreams(streams')) <= 1
       /\ StopStep /\ last'.wrote =>
             recorded_frames = Delivered(recording_stream)
       /\ last'.op = "audio_callback" =>
             /\ recording_stream # NoStream
             /\ recorded_frames'[Len(recorded_frames')][1] = recording_stream]_vars

=============================================================================
